---- MODULE Spec2Model ----
(***************************************************************************)
(* Model of the JVB stats collector (src/exporter/jvbCollector.go): the    *)
(* stats cache (Update), the freshness filter and the translation loop     *)
(* (Collect), the descriptor pass (Describe) and the bucket transform      *)
(* (bucketsHelper).                                                        *)
(*                                                                         *)
(* Strings that the code parses are sequences of one-character strings;    *)
(* metric and stat names are sequences of the words between underscores,   *)
(* so that "prefix + name" is sequence concatenation.                      *)
(***************************************************************************)
EXTENDS Integers, Sequences, FiniteSets, TLC

(***************************************************************************)
(* Bounds of the model.                                                    *)
(***************************************************************************)
\* the wall clock runs from 0 to MaxTime
MaxTime == 2
\* longest arbitrary string handed to the bucket transform on its own
MaxLen == 4
\* most fields of a comma-separated list handed to the bucket transform on its own
MaxFields == 3
\* width of the unsigned counter type (uint64 in the source, scaled down)
UintBits == 4
\* width of the float64 significand (53 in the source, scaled down with UintBits)
MantBits == 3

RECURSIVE Pow2(_)
Pow2(n) == IF n = 0 THEN 1 ELSE 2 * Pow2(n - 1)

\* the largest value of the unsigned counter type (math.MaxUint64)
MaxUint == Pow2(UintBits) - 1

\* uint64 arithmetic wraps around
UintAdd(a, b) == (a + b) % (MaxUint + 1)

(***************************************************************************)
(* The metric catalog built by NewJvbCollector, in source order.           *)
(***************************************************************************)
Catalog ==
  <<
    [name |-> <<"packet", "rate", "download">>, metricType |-> "GaugeValue"],
    [name |-> <<"conference", "sizes">>, metricType |-> "UntypedValue"],
    [name |-> <<"total", "packets", "sent", "octo">>, metricType |-> "CounterValue"],
    [name |-> <<"total", "loss", "degraded", "participant", "seconds">>, metricType |-> "CounterValue"],
    [name |-> <<"bit", "rate", "download">>, metricType |-> "GaugeValue"],
    [name |-> <<"jitter", "aggregate">>, metricType |-> "GaugeValue"],
    [name |-> <<"total", "packets", "received">>, metricType |-> "CounterValue"],
    [name |-> <<"rtt", "aggregate">>, metricType |-> "GaugeValue"],
    [name |-> <<"packet", "rate", "upload">>, metricType |-> "GaugeValue"],
    [name |-> <<"conferences">>, metricType |-> "GaugeValue"],
    [name |-> <<"participants">>, metricType |-> "GaugeValue"],
    [name |-> <<"total", "loss", "limited", "participant", "seconds">>, metricType |-> "CounterValue"],
    [name |-> <<"largest", "conference">>, metricType |-> "GaugeValue"],
    [name |-> <<"total", "packets", "sent">>, metricType |-> "CounterValue"],
    [name |-> <<"total", "data", "channel", "messages", "sent">>, metricType |-> "CounterValue"],
    [name |-> <<"total", "bytes", "received", "octo">>, metricType |-> "CounterValue"],
    [name |-> <<"threads">>, metricType |-> "GaugeValue"],
    [name |-> <<"total", "colibri", "web", "socket", "messages", "received">>, metricType |-> "CounterValue"],
    [name |-> <<"videochannels">>, metricType |-> "GaugeValue"],
    [name |-> <<"total", "packets", "received", "octo">>, metricType |-> "CounterValue"],
    [name |-> <<"total", "colibri", "web", "socket", "messages", "sent">>, metricType |-> "CounterValue"],
    [name |-> <<"total", "bytes", "sent", "octo">>, metricType |-> "CounterValue"],
    [name |-> <<"total", "data", "channel", "messages", "received">>, metricType |-> "CounterValue"],
    [name |-> <<"total", "conference", "seconds">>, metricType |-> "CounterValue"],
    [name |-> <<"total", "bytes", "received">>, metricType |-> "CounterValue"],
    [name |-> <<"total", "loss", "controlled", "participant", "seconds">>, metricType |-> "CounterValue"],
    [name |-> <<"total", "partially", "failed", "conferences">>, metricType |-> "CounterValue"],
    [name |-> <<"bit", "rate", "upload">>, metricType |-> "GaugeValue"],
    [name |-> <<"total", "conferences", "completed">>, metricType |-> "CounterValue"],
    [name |-> <<"total", "bytes", "sent">>, metricType |-> "CounterValue"],
    [name |-> <<"total", "failed", "conferences">>, metricType |-> "CounterValue"],
    [name |-> <<"conferences", "by", "audio", "senders">>, metricType |-> "UntypedValue"],
    [name |-> <<"conferences", "by", "video", "senders">>, metricType |-> "UntypedValue"],
    [name |-> <<"dtls", "failed", "endpoints">>, metricType |-> "GaugeValue"],
    [name |-> <<"endpoints", "sending", "audio">>, metricType |-> "GaugeValue"],
    [name |-> <<"endpoints", "sending", "video">>, metricType |-> "GaugeValue"],
    [name |-> <<"inactive", "conferences">>, metricType |-> "GaugeValue"],
    [name |-> <<"inactive", "endpoints">>, metricType |-> "GaugeValue"],
    [name |-> <<"incoming", "loss">>, metricType |-> "GaugeValue"],
    [name |-> <<"muc", "clients", "configured">>, metricType |-> "GaugeValue"],
    [name |-> <<"muc", "clients", "connected">>, metricType |-> "GaugeValue"],
    [name |-> <<"mucs", "configured">>, metricType |-> "GaugeValue"],
    [name |-> <<"mucs", "joined">>, metricType |-> "GaugeValue"],
    [name |-> <<"num", "eps", "no", "msg", "transport", "after", "delay">>, metricType |-> "GaugeValue"],
    [name |-> <<"octo", "conferences">>, metricType |-> "GaugeValue"],
    [name |-> <<"octo", "endpoints">>, metricType |-> "GaugeValue"],
    [name |-> <<"octo", "receive", "bitrate">>, metricType |-> "GaugeValue"],
    [name |-> <<"octo", "receive", "packet", "rate">>, metricType |-> "GaugeValue"],
    [name |-> <<"octo", "send", "bitrate">>, metricType |-> "GaugeValue"],
    [name |-> <<"octo", "send", "packet", "rate">>, metricType |-> "GaugeValue"],
    [name |-> <<"outgoing", "loss">>, metricType |-> "GaugeValue"],
    [name |-> <<"overall", "loss">>, metricType |-> "GaugeValue"],
    [name |-> <<"p2p", "conferences">>, metricType |-> "GaugeValue"],
    [name |-> <<"receive", "only", "endpoints">>, metricType |-> "GaugeValue"],
    [name |-> <<"stress", "level">>, metricType |-> "GaugeValue"],
    [name |-> <<"total", "conferences", "created">>, metricType |-> "CounterValue"],
    [name |-> <<"total", "dominant", "speaker", "changes">>, metricType |-> "CounterValue"],
    [name |-> <<"total", "ice", "failed">>, metricType |-> "CounterValue"],
    [name |-> <<"total", "ice", "succeeded">>, metricType |-> "CounterValue"],
    [name |-> <<"total", "ice", "succeeded", "relayed">>, metricType |-> "CounterValue"],
    [name |-> <<"total", "packets", "dropped", "octo">>, metricType |-> "CounterValue"],
    [name |-> <<"total", "participants">>, metricType |-> "CounterValue"]
  >>

\* variant: the label called "instance"
VarLabelsInstance == <<"instance">>

\* every catalog entry is created with the same variable and constant labels
VarLabels == <<"jvb_instance">>

ConstLabels == [app |-> "jitsi"]

\* newMetric: a catalog entry with its descriptor
newMetric(name, metricType, varLabels, constLabels) ==
  [name |-> name,
   metricType |-> metricType,
   desc |-> [fqName |-> name, variableLabels |-> varLabels, constLabels |-> constLabels]]

\* the name prefix computed by the constructor: subsystem first, then namespace
PrefixOf(namespace, subsystem) ==
  (IF subsystem # <<>> THEN subsystem ELSE <<>>) \o
  (IF namespace # <<>> THEN namespace ELSE <<>>)

\* collector.metrics after the constructor has appended every catalog entry
MetricsOf(prefix) ==
  [i \in 1..Len(Catalog) |->
     newMetric(prefix \o Catalog[i].name, Catalog[i].metricType, VarLabels, ConstLabels)]

(***************************************************************************)
(* strings.Trim, strings.Split and strconv.ParseUint as bucketsHelper      *)
(* uses them.                                                              *)
(***************************************************************************)
Digits == {"0", "1", "2", "3", "4", "5", "6", "7", "8", "9"}

DigitVal(c) ==
  CASE c = "0" -> 0 [] c = "1" -> 1 [] c = "2" -> 2 [] c = "3" -> 3 [] c = "4" -> 4
    [] c = "5" -> 5 [] c = "6" -> 6 [] c = "7" -> 7 [] c = "8" -> 8 [] c = "9" -> 9

RECURSIVE TrimLeft(_, _)
TrimLeft(s, cutset) ==
  IF s # <<>> /\ Head(s) \in cutset THEN TrimLeft(Tail(s), cutset) ELSE s

RECURSIVE TrimRight(_, _)
TrimRight(s, cutset) ==
  IF s # <<>> /\ s[Len(s)] \in cutset
  THEN TrimRight(SubSeq(s, 1, Len(s) - 1), cutset)
  ELSE s

\* strings.Trim(s, cutset): all leading and trailing characters of cutset removed
Trim(s, cutset) == TrimRight(TrimLeft(s, cutset), cutset)

\* strings.Split(s, sep) for a one-character separator: at least one field
RECURSIVE Split(_, _)
Split(s, sep) ==
  IF \E i \in 1..Len(s) : s[i] = sep
  THEN LET i == CHOOSE k \in 1..Len(s) : s[k] = sep /\ \A j \in 1..(k - 1) : s[j] # sep
       IN  <<SubSeq(s, 1, i - 1)>> \o Split(SubSeq(s, i + 1, Len(s)), sep)
  ELSE <<s>>

\* the digit loop of strconv.ParseUint(s, 10, 64): n is the value read so far.
\* A character that is no digit ends the parse with (0, ErrSyntax); a value
\* that leaves the type ends it at once with (MaxUint, ErrRange).
RECURSIVE ParseUintLoop(_, _)
ParseUintLoop(s, n) ==
  IF s = <<>> THEN [val |-> n, err |-> "nil"]
  ELSE IF Head(s) \notin Digits THEN [val |-> 0, err |-> "ErrSyntax"]
  ELSE IF n >= (MaxUint \div 10) + 1 THEN [val |-> MaxUint, err |-> "ErrRange"]
  ELSE IF n * 10 + DigitVal(Head(s)) > MaxUint THEN [val |-> MaxUint, err |-> "ErrRange"]
  ELSE ParseUintLoop(Tail(s), n * 10 + DigitVal(Head(s)))

ParseUint(s) ==
  IF s = <<>> THEN [val |-> 0, err |-> "ErrSyntax"] ELSE ParseUintLoop(s, 0)

(***************************************************************************)
(* bucketsHelper                                                           *)
(***************************************************************************)
\* the values slice: every field's parsed value, the parse error dropped
ParsedValues(fields) == [i \in 1..Len(fields) |-> ParseUint(fields[i]).val]

\* sum of values[1..n] in the counter type
RECURSIVE SumUpTo(_, _)
SumUpTo(values, n) == IF n = 0 THEN 0 ELSE UintAdd(SumUpTo(values, n - 1), values[n])

\* variant: the cumulative loop left out
CumulateRaw(values) == values

\* the cumulative loop: values[i] becomes the sum of values[0..i] of the shortened slice
Cumulate(values) == [i \in 1..Len(values) |-> SumUpTo(values, i)]

bucketsHelper(value) ==
  LET fields == Split(Trim(value, {"[", "]"}), ",")
      values == ParsedValues(fields)
      total == SumUpTo(values, Len(values))
      short == SubSeq(values, 1, Len(values) - 1)
      cumul == Cumulate(short)
  IN  [histogram |-> [k \in 0..(Len(cumul) - 1) |-> cumul[k + 1]], sum |-> total]

(***************************************************************************)
(* strconv.ParseFloat and the uint64 -> float64 conversion                 *)
(***************************************************************************)
RECURSIVE DecVal(_, _)
DecVal(s, n) == IF s = <<>> THEN n ELSE DecVal(Tail(s), n * 10 + DigitVal(Head(s)))

\* a decimal without trailing zeros in its fraction
RECURSIVE Normal(_, _, _)
Normal(neg, mant, frac) ==
  IF frac > 0 /\ mant % 10 = 0
  THEN Normal(neg, mant \div 10, frac - 1)
  ELSE [neg |-> neg, mant |-> mant, frac |-> frac]

\* strconv.ParseFloat(s, 64) on values made of signs, digits, "." and letters
\* that start no number: an optional sign, digits with at most one ".", at
\* least one digit, nothing else.  The value is (-1)^neg * mant / 10^frac.
ParseFloat(s) ==
  LET neg == s # <<>> /\ Head(s) = "-"
      body == IF s # <<>> /\ Head(s) \in {"+", "-"} THEN Tail(s) ELSE s
      dots == {i \in 1..Len(body) : body[i] = "."}
      noDot == SelectSeq(body, LAMBDA c : c # ".")
      ok == /\ \A i \in 1..Len(body) : body[i] \in Digits \cup {"."}
            /\ Cardinality(dots) <= 1
            /\ noDot # <<>>
      frac == IF dots = {} THEN 0 ELSE Len(body) - (CHOOSE i \in dots : TRUE)
  IN  IF ok
      THEN [value |-> Normal(neg, DecVal(noDot, 0), frac), err |-> "nil"]
      ELSE [value |-> Normal(FALSE, 0, 0), err |-> "ErrSyntax"]

RECURSIVE BitLen(_)
BitLen(n) == IF n = 0 THEN 0 ELSE 1 + BitLen(n \div 2)

\* float64(n) for an unsigned n: rounded to the significand's width, ties to even
Float64OfUint(n) ==
  LET shift == BitLen(n) - MantBits
      unit == Pow2(shift)
      q == n \div unit
      r == n % unit
  IN  IF shift <= 0 THEN n
      ELSE IF 2 * r > unit \/ (2 * r = unit /\ q % 2 = 1) THEN (q + 1) * unit
      ELSE q * unit

(***************************************************************************)
(* State                                                                   *)
(***************************************************************************)
VARIABLES
  NamePrefix,   \* JvbCollector.NamePrefix
  Retention,    \* JvbCollector.Retention
  statsSets,    \* JvbCollector.statsSets
  metrics,      \* JvbCollector.metrics
  now,          \* the wall clock read by time.Now and time.Since
  pc,           \* "idle", or the call that has just returned
  metricsCh,    \* what Collect has sent on its channel
  descCh,       \* what Describe has sent on its channel
  lastUpdate,   \* history: the arguments and time of the last Update per identifier
  value,        \* the argument of a bucketsHelper call made on its own
  transformed,  \* the result of that call
  excluded,     \* history: per identifier, whether a Collect has met it stale
  upd,          \* the Update calls in progress, step by step
  col,          \* the Collect or Describe call in progress, step by step
  inflight,     \* the item a channel send is blocked on
  origin        \* history: per snapshot, the time of the Update that wrote its stats

\* the state of the calls that run step by step
stepVars == <<upd, col, inflight, origin>>

vars == <<NamePrefix, Retention, statsSets, metrics, now, pc, metricsCh, descCh,
          lastUpdate, value, transformed, excluded, upd, col, inflight, origin>>

(***************************************************************************)
(* Inputs                                                                  *)
(***************************************************************************)
Identifiers == {"jvb-1", "jvb-2"}

\* history before the first Update
NoUpdate == [id \in Identifiers |-> [called |-> FALSE, stats |-> <<>>, time |-> 0]]

\* history before any Collect
NoExclusion == [id \in Identifiers |-> "no"]

\* the goroutines that call Update
Updaters == {"u1", "u2"}

\* no call runs step by step
NoUpdateCall ==
  [pc |-> "none", identifier |-> "", stats |-> <<>>, i |-> 0, base |-> <<>>, t |-> 0]

NoCollectCall ==
  [pc |-> "none", n |-> 0, i |-> 0, j |-> 0, k |-> 0, lastUpdated |-> 0, stats |-> <<>>,
   jvbIdentifier |-> "", origin |-> 0, t |-> 0, pending |-> <<>>]

NoOrigin == <<>>

\* the result of a transform that has not run
NoResult == [histogram |-> <<>>, sum |-> 0]

\* the (namespace, subsystem) pairs handed to the constructor
ConstructorInputs ==
  {[namespace |-> <<>>, subsystem |-> <<>>],
   [namespace |-> <<"jitsi">>, subsystem |-> <<"jvb">>]}

RetentionInputs == {1}

StatGauge == [Name |-> <<"participants">>, Value |-> <<"5">>]

StatBadScalar == [Name |-> <<"threads">>, Value |-> <<"x">>]

StatCounter == [Name |-> <<"total", "participants">>, Value |-> <<"2", ".", "5">>]

StatUnknown == [Name |-> <<"jitsi", "participants">>, Value |-> <<"5">>]

StatSizes == [Name |-> <<"conference", "sizes">>,
              Value |-> <<"[", "1", ",", "5", ",", "9", "]">>]

StatAudio == [Name |-> <<"conferences", "by", "audio", "senders">>,
              Value |-> <<"[", "x", ",", "1", "]">>]

StatVideo == [Name |-> <<"conferences", "by", "video", "senders">>,
              Value |-> <<"[", "1", ",", "5", "]">>]

StatPool == {StatGauge, StatBadScalar, StatCounter, StatUnknown, StatSizes, StatAudio, StatVideo}

\* the stats lists handed to Update
StatsInputs ==
  {<<>>} \cup {<<a>> : a \in StatPool} \cup
  {<<StatBadScalar, StatGauge>>, <<StatGauge, StatBadScalar>>, <<StatUnknown, StatGauge>>,
   <<StatAudio, StatCounter>>, <<StatGauge, StatGauge>>}

Alphabet == {"[", "]", ",", "1", "5", "9", "-", " ", "x"}

\* every string over Alphabet up to MaxLen characters
RawInputs == UNION {[1..n -> Alphabet] : n \in 0..MaxLen}

FieldInputs ==
  {<<>>, <<"0">>, <<"1">>, <<"5">>, <<"9">>, <<"1", "5">>, <<"1", "9">>, <<"-", "1">>,
   <<" ", "1">>, <<"x">>}

RECURSIVE Join(_)
Join(fields) ==
  IF Len(fields) = 1 THEN fields[1] ELSE fields[1] \o <<",">> \o Join(Tail(fields))

\* up to MaxFields fields joined by commas, with or without the brackets
ListInputs ==
  {open \o Join(fs) \o close :
     open \in {<<>>, <<"[">>}, close \in {<<>>, <<"]">>},
     fs \in UNION {[1..n -> FieldInputs] : n \in 1..MaxFields}}

\* the raw values handed to the bucket transform on its own
BucketInputs == RawInputs \cup ListInputs

(***************************************************************************)
(* Update                                                                  *)
(***************************************************************************)
\* variant: a replaced snapshot keeps its old lastUpdated
UpdateSetsKeepTime(sets, identifier, stats, t) ==
  IF \E i \in 1..Len(sets) : sets[i].jvbIdentifier = identifier
  THEN LET i == CHOOSE k \in 1..Len(sets) : sets[k].jvbIdentifier = identifier
       IN  [sets EXCEPT ![i].stats = stats]
  ELSE Append(sets, [lastUpdated |-> t, stats |-> stats, jvbIdentifier |-> identifier])

\* variant: the scan for the identifier left out, every Update appends
UpdateSetsAppend(sets, identifier, stats, t) ==
  Append(sets, [lastUpdated |-> t, stats |-> stats, jvbIdentifier |-> identifier])

\* variant: a replaced snapshot is taken out and appended again
UpdateSetsMoveToEnd(sets, identifier, stats, t) ==
  Append(SelectSeq(sets, LAMBDA x : x.jvbIdentifier # identifier),
         [lastUpdated |-> t, stats |-> stats, jvbIdentifier |-> identifier])

\* the statsSets slice after Update(identifier, stats) at time t
UpdateSets(sets, identifier, stats, t) ==
  IF \E i \in 1..Len(sets) : sets[i].jvbIdentifier = identifier
  THEN LET i == CHOOSE k \in 1..Len(sets) :
                  /\ sets[k].jvbIdentifier = identifier
                  /\ \A j \in 1..(k - 1) : sets[j].jvbIdentifier # identifier
       IN  [sets EXCEPT ![i].lastUpdated = t, ![i].stats = stats]
  ELSE Append(sets, [lastUpdated |-> t, stats |-> stats, jvbIdentifier |-> identifier])

Update(identifier, stats) ==
  /\ pc = "idle"
  /\ statsSets' = UpdateSets(statsSets, identifier, stats, now)
  /\ lastUpdate' = [lastUpdate EXCEPT
                      ![identifier] = [called |-> TRUE, stats |-> stats, time |-> now]]
  /\ excluded' = [excluded EXCEPT
                    ![identifier] = IF @ = "stale" THEN "refreshed" ELSE @]
  /\ UNCHANGED <<NamePrefix, Retention, metrics, now, pc, metricsCh, descCh, value, transformed,
                 stepVars>>

(***************************************************************************)
(* Collect                                                                 *)
(***************************************************************************)
\* variant: the boundary age excluded
FreshStrict(set, t) == t - set.lastUpdated < Retention

\* time.Since(set.lastUpdated) <= c.Retention, the clock reading t
Fresh(set, t) == t - set.lastUpdated <= Retention

\* variant: the catalog name only has to end with the stat name
NameMatchesSuffix(metric, stat) ==
  /\ Len(stat.Name) <= Len(metric.name)
  /\ SubSeq(metric.name, Len(metric.name) - Len(stat.Name) + 1, Len(metric.name)) = stat.Name

NameMatches(metric, stat) == metric.name = NamePrefix \o stat.Name

\* variant: the third histogram name forgotten
IsHistogramStatTwo(name) ==
  \/ name = <<"conference", "sizes">>
  \/ name = <<"conferences", "by", "audio", "senders">>

IsHistogramStat(name) ==
  \/ name = <<"conference", "sizes">>
  \/ name = <<"conferences", "by", "audio", "senders">>
  \/ name = <<"conferences", "by", "video", "senders">>

\* prometheus.NewConstMetric: fails when the label values do not fit the descriptor
NewConstMetric(desc, valueType, v, labelValues) ==
  IF Len(labelValues) # Len(desc.variableLabels)
  THEN [err |-> "inconsistent label cardinality"]
  ELSE [err |-> "nil",
        m |-> [desc |-> desc, valType |-> valueType, val |-> v, labelValues |-> labelValues]]

\* prometheus.NewConstHistogram
NewConstHistogram(desc, count, s, buckets, labelValues) ==
  IF Len(labelValues) # Len(desc.variableLabels)
  THEN [err |-> "inconsistent label cardinality"]
  ELSE [err |-> "nil",
        m |-> [desc |-> desc, valType |-> "Histogram", count |-> count, sum |-> s,
               buckets |-> buckets, labelValues |-> labelValues]]

\* variant: a value with a field that does not parse is skipped
HistogramMetricStrict(set, stat, metric) ==
  LET fields == Split(Trim(stat.Value, {"[", "]"}), ",")
      b == bucketsHelper(stat.Value)
      r == NewConstHistogram(metric.desc, b.sum, Float64OfUint(b.sum), b.histogram,
                             <<set.jvbIdentifier>>)
  IN  IF \E i \in 1..Len(fields) : ParseUint(fields[i]).err # "nil" THEN <<>>
      ELSE IF r.err # "nil" THEN <<>> ELSE <<r.m>>

\* the histogram branch for one stat and its catalog entry: what is sent
HistogramMetric(set, stat, metric) ==
  LET b == bucketsHelper(stat.Value)
      r == NewConstHistogram(metric.desc, b.sum, Float64OfUint(b.sum), b.histogram,
                             <<set.jvbIdentifier>>)
  IN  IF r.err # "nil" THEN <<>> ELSE <<r.m>>

\* variant: the parse error dropped, as bucketsHelper drops it
SimpleMetricIgnoreErr(set, stat, metric) ==
  LET p == ParseFloat(stat.Value)
      r == NewConstMetric(metric.desc, metric.metricType, p.value, <<set.jvbIdentifier>>)
  IN  IF r.err # "nil" THEN <<>> ELSE <<r.m>>

\* variant: every scalar metric built as a gauge
SimpleMetricGauge(set, stat, metric) ==
  LET p == ParseFloat(stat.Value)
      r == NewConstMetric(metric.desc, "GaugeValue", p.value, <<set.jvbIdentifier>>)
  IN  IF p.err # "nil" THEN <<>>
      ELSE IF r.err # "nil" THEN <<>>
      ELSE <<r.m>>

\* the scalar branch for one stat and its catalog entry: what is sent
SimpleMetric(set, stat, metric) ==
  LET p == ParseFloat(stat.Value)
      r == NewConstMetric(metric.desc, metric.metricType, p.value, <<set.jvbIdentifier>>)
  IN  IF p.err # "nil" THEN <<>>
      ELSE IF r.err # "nil" THEN <<>>
      ELSE <<r.m>>

\* the body of the innermost loop
MatchMetric(set, stat, metric) ==
  IF NameMatches(metric, stat)
  THEN IF IsHistogramStat(stat.Name)
       THEN HistogramMetric(set, stat, metric)
       ELSE SimpleMetric(set, stat, metric)
  ELSE <<>>

\* history: every sent metric is tagged with the snapshot and stat it came from
Tag(ms, i, j) == [k \in 1..Len(ms) |-> [m |-> ms[k], set |-> i, stat |-> j]]

\* the loop over c.metrics for one stat, from catalog entry k on
RECURSIVE StatSends(_, _, _, _, _)
StatSends(ms, set, i, j, k) ==
  IF k > Len(ms) THEN <<>>
  ELSE Tag(MatchMetric(set, set.stats[j], ms[k]), i, j) \o StatSends(ms, set, i, j, k + 1)

\* the loop over set.stats.Stats, from stat j on
RECURSIVE SetSends(_, _, _, _)
SetSends(ms, set, i, j) ==
  IF j > Len(set.stats) THEN <<>>
  ELSE StatSends(ms, set, i, j, 1) \o SetSends(ms, set, i, j + 1)

\* the loop over c.statsSets, from set i on, the clock reading t
RECURSIVE CollectSends(_, _, _, _)
CollectSends(ms, sets, t, i) ==
  IF i > Len(sets) THEN <<>>
  ELSE (IF Fresh(sets[i], t) THEN SetSends(ms, sets[i], i, 1) ELSE <<>>)
       \o CollectSends(ms, sets, t, i + 1)

\* variant: Collect drops the snapshots it finds stale
CollectEvict ==
  /\ pc = "idle"
  /\ metricsCh' = CollectSends(metrics, statsSets, now, 1)
  /\ pc' = "collected"
  /\ statsSets' = SelectSeq(statsSets, LAMBDA x : Fresh(x, now))
  /\ excluded' = excluded
  /\ UNCHANGED <<NamePrefix, Retention, metrics, now, descCh, lastUpdate,
                 value, transformed, stepVars>>

Collect ==
  /\ pc = "idle"
  /\ metricsCh' = CollectSends(metrics, statsSets, now, 1)
  /\ pc' = "collected"
  /\ excluded' = [id \in Identifiers |->
                    IF lastUpdate[id].called /\ now - lastUpdate[id].time > Retention
                    THEN "stale"
                    ELSE excluded[id]]
  /\ UNCHANGED <<NamePrefix, Retention, statsSets, metrics, now, descCh, lastUpdate,
                 value, transformed, stepVars>>

(***************************************************************************)
(* Describe                                                                *)
(***************************************************************************)
\* variant: the descriptors taken from what a Collect would send now
DescribeByCollect(ms) ==
  [k \in 1..Len(CollectSends(ms, statsSets, now, 1)) |->
     CollectSends(ms, statsSets, now, 1)[k].m.desc]

DescribeSends(ms) == [k \in 1..Len(ms) |-> ms[k].desc]

Describe ==
  /\ pc = "idle"
  /\ descCh' = DescribeSends(metrics)
  /\ pc' = "described"
  /\ UNCHANGED <<NamePrefix, Retention, statsSets, metrics, now, metricsCh, lastUpdate,
                 value, transformed, excluded, stepVars>>

(***************************************************************************)
(* Environment: the registry that called Collect or Describe drains the    *)
(* channel it passed; time passes between calls.                           *)
(***************************************************************************)
Receive ==
  /\ pc \in {"collected", "described"}
  /\ pc' = "idle"
  /\ metricsCh' = <<>>
  /\ descCh' = <<>>
  /\ UNCHANGED <<NamePrefix, Retention, statsSets, metrics, now, lastUpdate, value, transformed,
                 excluded, stepVars>>

Tick ==
  /\ pc = "idle"
  /\ now < MaxTime
  /\ now' = now + 1
  /\ UNCHANGED <<NamePrefix, Retention, statsSets, metrics, pc, metricsCh, descCh,
                 lastUpdate, value, transformed, excluded, stepVars>>

(***************************************************************************)
(* The collector after NewJvbCollector, driven by a sequence of calls      *)
(***************************************************************************)
Init ==
  /\ \E c \in ConstructorInputs :
       /\ NamePrefix = PrefixOf(c.namespace, c.subsystem)
       /\ metrics = MetricsOf(PrefixOf(c.namespace, c.subsystem))
  /\ Retention \in RetentionInputs
  /\ statsSets = <<>>
  /\ now = 0
  /\ pc = "idle"
  /\ metricsCh = <<>>
  /\ descCh = <<>>
  /\ lastUpdate = NoUpdate
  /\ value = <<>>
  /\ transformed = NoResult
  /\ excluded = NoExclusion
  /\ upd = [u \in Updaters |-> NoUpdateCall]
  /\ col = NoCollectCall
  /\ inflight = <<>>
  /\ origin = NoOrigin

Next ==
  \/ \E id \in Identifiers, stats \in StatsInputs : Update(id, stats)
  \/ Collect
  \/ Describe
  \/ Receive
  \/ Tick

Spec == Init /\ [][Next]_vars

(***************************************************************************)
(* The bucket transform on its own, over every raw value up to MaxLen      *)
(***************************************************************************)
InitBuckets ==
  /\ NamePrefix = <<>>
  /\ metrics = MetricsOf(<<>>)
  /\ Retention \in RetentionInputs
  /\ statsSets = <<>>
  /\ now = 0
  /\ pc = "transform"
  /\ metricsCh = <<>>
  /\ descCh = <<>>
  /\ lastUpdate = NoUpdate
  /\ value \in BucketInputs
  /\ transformed = NoResult
  /\ excluded = NoExclusion
  /\ upd = [u \in Updaters |-> NoUpdateCall]
  /\ col = NoCollectCall
  /\ inflight = <<>>
  /\ origin = NoOrigin

Transform ==
  /\ pc = "transform"
  /\ transformed' = bucketsHelper(value)
  /\ pc' = "transformed"
  /\ UNCHANGED <<NamePrefix, Retention, statsSets, metrics, now, metricsCh, descCh,
                 lastUpdate, value, excluded, stepVars>>

NextBuckets == Transform

SpecBuckets == InitBuckets /\ [][NextBuckets]_vars

(***************************************************************************)
(* The calls step by step.  Two goroutines call Update and one calls       *)
(* Collect or Describe, with no lock around c.statsSets.  A step is one    *)
(* read or write of the shared slice or of a field of an element of it, or *)
(* one channel operation; the slice header is read and written as a unit.  *)
(* The two Updates either both find their identifier or both insert: a     *)
(* write into an element that overlaps an append is left out, its effect   *)
(* depends on whether the append moves the array.  Describe reads nothing  *)
(* that Update writes and runs with its receiver only.                     *)
(***************************************************************************)
\* the caches the calls start on: built by Updates at time 0
StepCaches ==
  {<<>>, UpdateSets(<<>>, "jvb-1", <<StatGauge>>, 0)}

Stored(sets, id) == \E i \in 1..Len(sets) : sets[i].jvbIdentifier = id

\* the index the scan of Update stops at, 0 when the loop runs to its end
ScanFor(sets, identifier) ==
  IF Stored(sets, identifier)
  THEN CHOOSE k \in 1..Len(sets) :
         /\ sets[k].jvbIdentifier = identifier
         /\ \A j \in 1..(k - 1) : sets[j].jvbIdentifier # identifier
  ELSE 0

InitSteps ==
  /\ \E c \in ConstructorInputs :
       /\ NamePrefix = PrefixOf(c.namespace, c.subsystem)
       /\ metrics = MetricsOf(PrefixOf(c.namespace, c.subsystem))
  /\ Retention \in RetentionInputs
  /\ statsSets \in StepCaches
  /\ now = 0
  /\ pc = "steps"
  /\ metricsCh = <<>>
  /\ descCh = <<>>
  /\ lastUpdate = [id \in Identifiers |->
                     IF Stored(statsSets, id)
                     THEN [called |-> TRUE, stats |-> <<StatGauge>>, time |-> 0]
                     ELSE NoUpdate[id]]
  /\ value = <<>>
  /\ transformed = NoResult
  /\ excluded = NoExclusion
  /\ \/ /\ \E id1, id2 \in Identifiers :
             /\ Stored(statsSets, id1) <=> Stored(statsSets, id2)
             /\ upd = [u \in Updaters |->
                         IF u = "u1"
                         THEN [NoUpdateCall EXCEPT !.pc = "start", !.identifier = id1,
                                                   !.stats = <<StatCounter>>]
                         ELSE [NoUpdateCall EXCEPT !.pc = "start", !.identifier = id2,
                                                   !.stats = <<StatBadScalar>>]]
        /\ col = [NoCollectCall EXCEPT !.pc = "collect"]
     \/ /\ upd = [u \in Updaters |-> NoUpdateCall]
        /\ col = [NoCollectCall EXCEPT !.pc = "describe"]
  /\ inflight = <<>>
  /\ origin = [i \in 1..Len(statsSets) |-> 0]

\* Update: the range loop over c.statsSets, up to the match or to its end
UpdScan(u) ==
  /\ upd[u].pc = "start"
  /\ upd' = [upd EXCEPT ![u].i = ScanFor(statsSets, upd[u].identifier),
                        ![u].pc = IF Stored(statsSets, upd[u].identifier)
                                  THEN "writeTime" ELSE "appendRead"]
  /\ UNCHANGED <<NamePrefix, Retention, statsSets, metrics, now, pc, metricsCh, descCh,
                 lastUpdate, value, transformed, excluded, col, inflight, origin>>

\* Update: c.statsSets[i].lastUpdated = time.Now()
UpdWriteTime(u) ==
  /\ upd[u].pc = "writeTime"
  /\ statsSets' = [statsSets EXCEPT ![upd[u].i].lastUpdated = now]
  /\ upd' = [upd EXCEPT ![u].t = now, ![u].pc = "writeStats"]
  /\ UNCHANGED <<NamePrefix, Retention, metrics, now, pc, metricsCh, descCh,
                 lastUpdate, value, transformed, excluded, col, inflight, origin>>

\* Update: c.statsSets[i].stats = *stats, and the return
UpdWriteStats(u) ==
  /\ upd[u].pc = "writeStats"
  /\ statsSets' = [statsSets EXCEPT ![upd[u].i].stats = upd[u].stats]
  /\ origin' = [origin EXCEPT ![upd[u].i] = upd[u].t]
  /\ lastUpdate' = [lastUpdate EXCEPT ![upd[u].identifier] =
                      [called |-> TRUE, stats |-> upd[u].stats, time |-> upd[u].t]]
  /\ upd' = [upd EXCEPT ![u].pc = "done"]
  /\ UNCHANGED <<NamePrefix, Retention, metrics, now, pc, metricsCh, descCh,
                 value, transformed, excluded, col, inflight>>

\* Update: the read of c.statsSets that append works on
UpdAppendRead(u) ==
  /\ upd[u].pc = "appendRead"
  /\ upd' = [upd EXCEPT ![u].base = statsSets, ![u].pc = "appendWrite"]
  /\ UNCHANGED <<NamePrefix, Retention, statsSets, metrics, now, pc, metricsCh, descCh,
                 lastUpdate, value, transformed, excluded, col, inflight, origin>>

\* Update: c.statsSets = append(the slice read, the new set), and the return
UpdAppendWrite(u) ==
  /\ upd[u].pc = "appendWrite"
  /\ statsSets' = Append(upd[u].base,
                         [lastUpdated |-> now, stats |-> upd[u].stats,
                          jvbIdentifier |-> upd[u].identifier])
  /\ origin' = Append(SubSeq(origin, 1, Len(upd[u].base)), now)
  /\ lastUpdate' = [lastUpdate EXCEPT ![upd[u].identifier] =
                      [called |-> TRUE, stats |-> upd[u].stats, time |-> now]]
  /\ upd' = [upd EXCEPT ![u].t = now, ![u].pc = "done"]
  /\ UNCHANGED <<NamePrefix, Retention, metrics, now, pc, metricsCh, descCh,
                 value, transformed, excluded, col, inflight>>

\* variant: the channel is never ready for a send
CanSendNever(ch) == FALSE

\* a send on the channel goes through when no earlier item waits for its receiver
CanSend(ch) == ch = <<>>

\* Collect: the range expression c.statsSets is evaluated once
ColRange ==
  /\ col.pc = "collect"
  /\ col' = [col EXCEPT !.n = Len(statsSets), !.i = 1, !.pc = "readTime"]
  /\ UNCHANGED <<NamePrefix, Retention, statsSets, metrics, now, pc, metricsCh, descCh,
                 lastUpdate, value, transformed, excluded, upd, inflight, origin>>

\* Collect: the copy of element i into set, its lastUpdated; or the end of the loop
ColReadTime ==
  /\ col.pc = "readTime"
  /\ col' = IF col.i > col.n
            THEN [col EXCEPT !.pc = "done"]
            ELSE [col EXCEPT !.lastUpdated = statsSets[col.i].lastUpdated, !.pc = "readStats"]
  /\ UNCHANGED <<NamePrefix, Retention, statsSets, metrics, now, pc, metricsCh, descCh,
                 lastUpdate, value, transformed, excluded, upd, inflight, origin>>

\* Collect: the copy of element i into set, its stats and jvbIdentifier
ColReadStats ==
  /\ col.pc = "readStats"
  /\ col' = [col EXCEPT !.stats = statsSets[col.i].stats,
                        !.jvbIdentifier = statsSets[col.i].jvbIdentifier,
                        !.origin = origin[col.i],
                        !.pc = "check"]
  /\ UNCHANGED <<NamePrefix, Retention, statsSets, metrics, now, pc, metricsCh, descCh,
                 lastUpdate, value, transformed, excluded, upd, inflight, origin>>

\* Collect: time.Since(set.lastUpdated) <= c.Retention
ColCheck ==
  /\ col.pc = "check"
  /\ col' = IF Fresh(col, now)
            THEN [col EXCEPT !.t = now, !.j = 1, !.pc = "stat"]
            ELSE [col EXCEPT !.t = now, !.i = col.i + 1, !.pc = "readTime"]
  /\ UNCHANGED <<NamePrefix, Retention, statsSets, metrics, now, pc, metricsCh, descCh,
                 lastUpdate, value, transformed, excluded, upd, inflight, origin>>

\* Collect: the catalog loop for stat j of set, up to its sends; or the next set
ColStat ==
  /\ col.pc = "stat"
  /\ col' = IF col.j > Len(col.stats)
            THEN [col EXCEPT !.i = col.i + 1, !.pc = "readTime"]
            ELSE [col EXCEPT !.pending = StatSends(metrics, col, col.i, col.j, 1),
                             !.pc = "send"]
  /\ UNCHANGED <<NamePrefix, Retention, statsSets, metrics, now, pc, metricsCh, descCh,
                 lastUpdate, value, transformed, excluded, upd, inflight, origin>>

\* Collect: metrics <- m for the next metric of the stat; or the next stat
ColSend ==
  /\ col.pc = "send"
  /\ IF col.pending = <<>>
     THEN /\ col' = [col EXCEPT !.j = col.j + 1, !.pc = "stat"]
          /\ inflight' = inflight
     ELSE /\ CanSend(inflight)
          /\ inflight' = <<Head(col.pending)>>
          /\ col' = [col EXCEPT !.pending = Tail(col.pending)]
  /\ UNCHANGED <<NamePrefix, Retention, statsSets, metrics, now, pc, metricsCh, descCh,
                 lastUpdate, value, transformed, excluded, upd, origin>>

\* Describe: desc <- m.desc for the next catalog entry; or the end of the loop
DescSend ==
  /\ col.pc = "describe"
  /\ IF col.k >= Len(metrics)
     THEN /\ col' = [col EXCEPT !.pc = "done"]
          /\ inflight' = inflight
     ELSE /\ CanSend(inflight)
          /\ inflight' = <<metrics[col.k + 1].desc>>
          /\ col' = [col EXCEPT !.k = col.k + 1]
  /\ UNCHANGED <<NamePrefix, Retention, statsSets, metrics, now, pc, metricsCh, descCh,
                 lastUpdate, value, transformed, excluded, upd, origin>>

\* the receiver of the channel takes the item that waits
Recv ==
  /\ inflight # <<>>
  /\ inflight' = <<>>
  /\ IF col.k > 0
     THEN descCh' = Append(descCh, inflight[1]) /\ metricsCh' = metricsCh
     ELSE metricsCh' = Append(metricsCh, inflight[1]) /\ descCh' = descCh
  /\ UNCHANGED <<NamePrefix, Retention, statsSets, metrics, now, pc, lastUpdate, value,
                 transformed, excluded, upd, col, origin>>

TickSteps ==
  /\ pc = "steps"
  /\ now < MaxTime
  /\ now' = now + 1
  /\ UNCHANGED <<NamePrefix, Retention, statsSets, metrics, pc, metricsCh, descCh,
                 lastUpdate, value, transformed, excluded, stepVars>>

UpdateSteps(u) ==
  \/ UpdScan(u)
  \/ UpdWriteTime(u)
  \/ UpdWriteStats(u)
  \/ UpdAppendRead(u)
  \/ UpdAppendWrite(u)

CollectSteps ==
  \/ ColRange
  \/ ColReadTime
  \/ ColReadStats
  \/ ColCheck
  \/ ColStat
  \/ ColSend

NextSteps ==
  \/ \E u \in Updaters : UpdateSteps(u)
  \/ CollectSteps
  \/ DescSend
  \/ Recv
  \/ TickSteps

SpecSteps == InitSteps /\ [][NextSteps]_vars

\* a step of a call or of the receiver of the channel
Progress ==
  \/ \E u \in Updaters : UpdateSteps(u)
  \/ CollectSteps
  \/ DescSend
  \/ Recv

\* the scheduler does not stop while a goroutine or the receiver of the
\* channel can take a step
SpecLive == SpecSteps /\ WF_vars(Progress)

(***************************************************************************)
(* Properties                                                              *)
(***************************************************************************)
\* the positions of metricsCh sent for snapshot i, and for its stat j
SentFor(i) == {k \in 1..Len(metricsCh) : metricsCh[k].set = i}

SentForStat(i, j) == {k \in SentFor(i) : metricsCh[k].stat = j}

\* the age of snapshot i on the clock
Age(i) == now - statsSets[i].lastUpdated

\* the catalog entries a stat name stands for, by the catalog's own names
EntriesOf(stat) == {k \in 1..Len(Catalog) : Catalog[k].name = stat.Name}

HistogramNames ==
  {<<"conference", "sizes">>, <<"conferences", "by", "audio", "senders">>,
   <<"conferences", "by", "video", "senders">>}

\* a stat that yields a metric when its snapshot is translated
Translatable(stat) ==
  /\ EntriesOf(stat) # {}
  /\ stat.Name \in HistogramNames \/ ParseFloat(stat.Value).err = "nil"

\* the sent metrics without the history tags
Untag(ch) == [k \in 1..Len(ch) |-> ch[k].m]

\* C1: a Collect emits the metrics of a stored snapshot if and only if the
\* snapshot's age at collect time is at most Retention, the age equal to
\* Retention included; whatever the other snapshots' ages are, a fresh
\* snapshot gets a metric for each of its translatable stats and a stale one
\* gets none.
C1_FreshnessFilter ==
  pc = "collected" =>
    \A i \in 1..Len(statsSets) :
      LET translatable == {j \in 1..Len(statsSets[i].stats) :
                             Translatable(statsSets[i].stats[j])}
      IN  /\ Age(i) > Retention => SentFor(i) = {}
          /\ Age(i) <= Retention => \A j \in translatable : SentForStat(i, j) # {}
          /\ translatable # {} => (SentFor(i) # {} <=> Age(i) <= Retention)

\* a Collect that met a stale snapshot first and then one of age exactly Retention
C1_Witness ==
  /\ pc = "collected"
  /\ Len(statsSets) = 2
  /\ Age(1) > Retention
  /\ Age(2) = Retention
  /\ SentFor(2) # {}

\* C2: after any sequence of Updates the snapshot of an identifier holds the
\* stats of the last Update for it and that Update's time, and a later Collect
\* shows only metrics of those stats.
C2_LastUpdateWins ==
  \A id \in Identifiers :
    lastUpdate[id].called =>
      /\ \E i \in 1..Len(statsSets) : statsSets[i].jvbIdentifier = id
      /\ \A i \in 1..Len(statsSets) :
           statsSets[i].jvbIdentifier = id =>
             /\ statsSets[i].stats = lastUpdate[id].stats
             /\ statsSets[i].lastUpdated = lastUpdate[id].time
             /\ pc = "collected" =>
                  /\ SentFor(i) # {} => now - lastUpdate[id].time <= Retention
                  /\ \A k \in SentFor(i) :
                       /\ metricsCh[k].stat \in 1..Len(lastUpdate[id].stats)
                       /\ metricsCh[k].m.desc.fqName =
                            NamePrefix \o lastUpdate[id].stats[metricsCh[k].stat].Name
                       /\ metricsCh[k].m.labelValues = <<id>>
                  /\ now - lastUpdate[id].time <= Retention =>
                       \A j \in 1..Len(lastUpdate[id].stats) :
                         Translatable(lastUpdate[id].stats[j]) => SentForStat(i, j) # {}

\* the first stored identifier was updated again after the second was inserted
\* (with other stats than the empty list), and a Collect followed
C2_Witness ==
  /\ pc = "collected"
  /\ Len(statsSets) = 2
  /\ statsSets[1].lastUpdated > statsSets[2].lastUpdated
  /\ SentFor(1) # {}

\* C3: in every reachable state the cache holds at most one snapshot per
\* instance identifier.
C3_OneSnapshotPerIdentifier ==
  \A i, j \in 1..Len(statsSets) :
    statsSets[i].jvbIdentifier = statsSets[j].jvbIdentifier => i = j

\* both identifiers are stored and the first one has been updated more than once
C3_Witness ==
  /\ Len(statsSets) = 2
  /\ statsSets[1].lastUpdated > statsSets[2].lastUpdated
  /\ lastUpdate[statsSets[1].jvbIdentifier].called
  /\ pc = "described"

(***************************************************************************)
(* Properties of the bucket transform                                      *)
(***************************************************************************)
\* the counts of a comma-separated list of decimal numerals, read left to
\* right as numbers of any size; cur is the numeral being read
RECURSIVE Counts(_, _, _)
Counts(s, cur, acc) ==
  IF s = <<>> THEN Append(acc, cur)
  ELSE IF Head(s) = "," THEN Counts(Tail(s), 0, Append(acc, cur))
  ELSE Counts(Tail(s), cur * 10 + DigitVal(Head(s)), acc)

\* "[c0,...,cN]" with every ci a decimal numeral, or "[]"
WellFormed(v) ==
  /\ Len(v) >= 2
  /\ v[1] = "["
  /\ v[Len(v)] = "]"
  /\ \A i \in 2..(Len(v) - 1) : v[i] \in Digits \cup {","}
  /\ \A i \in 2..(Len(v) - 1) : v[i] = "," => v[i - 1] \in Digits /\ v[i + 1] \in Digits

CountsOf(v) == Counts(SubSeq(v, 2, Len(v) - 1), 0, <<>>)

\* c[1] + ... + c[n] as a number of any size
RECURSIVE PlainSum(_, _)
PlainSum(c, n) == IF n = 0 THEN 0 ELSE PlainSum(c, n - 1) + c[n]

\* the result the transform is to return for the counts c
Cumulative(c, r) ==
  /\ r.sum = PlainSum(c, Len(c))
  /\ DOMAIN r.histogram = 0..(Len(c) - 2)
  /\ \A i \in 0..(Len(c) - 2) : r.histogram[i] = PlainSum(c, i + 1)

ValidField(f) == f # <<>> /\ (\A i \in 1..Len(f) : f[i] \in Digits) /\ DecVal(f, 0) <= MaxUint

\* the counts with every field that is no valid non-negative integer taken as 0
LenientCounts(v) ==
  LET fields == Split(Trim(v, {"[", "]"}), ",")
  IN  [i \in 1..Len(fields) |-> IF ValidField(fields[i]) THEN DecVal(fields[i], 0) ELSE 0]

\* C10: every field that is not a valid non-negative integer (text, a negative
\* number, a number with spaces, a number too large for the counter) counts as
\* 0 in totalObservations and in every cumulative bucket.
C10_InvalidFieldIsZero ==
  pc = "transformed" =>
    LET c == LenientCounts(value)
    IN  /\ transformed.sum = SumUpTo(c, Len(c))
        /\ DOMAIN transformed.histogram = 0..(Len(c) - 2)
        /\ \A i \in 0..(Len(c) - 2) : transformed.histogram[i] = SumUpTo(c, i + 1)

(***************************************************************************)
(* Properties of the translation                                           *)
(***************************************************************************)
\* the cache without the stats that satisfy drop
Without(sets, drop(_)) ==
  [i \in 1..Len(sets) |->
     [sets[i] EXCEPT !.stats = SelectSeq(sets[i].stats, LAMBDA st : ~drop(st))]]

\* a scalar stat of the catalog whose value does not parse as a number
MalformedScalar(stat) ==
  /\ EntriesOf(stat) # {}
  /\ stat.Name \notin HistogramNames
  /\ ParseFloat(stat.Value).err # "nil"

\* C5: a scalar stat whose value does not parse as a number yields no metric,
\* and the Collect sends, for every other stat of every snapshot, what it
\* would send if the malformed stats were not in the cache.
C5_ScalarFaultIsolation ==
  pc = "collected" =>
    /\ \A k \in 1..Len(metricsCh) :
         ~MalformedScalar(statsSets[metricsCh[k].set].stats[metricsCh[k].stat])
    /\ Untag(metricsCh) =
         Untag(CollectSends(metrics, Without(statsSets, MalformedScalar), now, 1))

\* a malformed scalar stat came before a good stat of the same fresh snapshot
\* and before a second fresh snapshot, and both were translated
C5_Witness ==
  /\ pc = "collected"
  /\ Len(statsSets) = 2
  /\ Len(statsSets[1].stats) = 2
  /\ MalformedScalar(statsSets[1].stats[1])
  /\ SentForStat(1, 2) # {}
  /\ SentFor(2) # {}

\* a stat whose prefixed name is the name of no catalog entry
Unmatched(stat) == \A k \in 1..Len(metrics) : metrics[k].name # NamePrefix \o stat.Name

\* C6: a stat whose prefixed name equals no catalog entry's name yields no
\* metric, and the Collect sends for the other stats what it would send if
\* the unmatched stats were not in the cache.
C6_UnmatchedStatIgnored ==
  pc = "collected" =>
    /\ \A k \in 1..Len(metricsCh) :
         ~Unmatched(statsSets[metricsCh[k].set].stats[metricsCh[k].stat])
    /\ Untag(metricsCh) = Untag(CollectSends(metrics, Without(statsSets, Unmatched), now, 1))

\* under a non-empty prefix, an unmatched stat came before a good stat of the
\* same fresh snapshot, which was translated
C6_Witness ==
  /\ pc = "collected"
  /\ NamePrefix # <<>>
  /\ \E i \in 1..Len(statsSets) :
       /\ Len(statsSets[i].stats) = 2
       /\ Unmatched(statsSets[i].stats[1])
       /\ SentForStat(i, 2) # {}

\* C7: for every fresh snapshot and every stat in it that matches a gauge or
\* counter catalog entry and whose value parses, Collect sends exactly one
\* metric: for that entry, of the entry's declared kind, with the parsed value
\* and the snapshot's identifier as its label value.
C7_ScalarMetric ==
  pc = "collected" =>
    \A i \in 1..Len(statsSets) : \A j \in 1..Len(statsSets[i].stats) :
      LET stat == statsSets[i].stats[j]
      IN  \A e \in EntriesOf(stat) :
            /\ Age(i) <= Retention
            /\ Catalog[e].metricType \in {"GaugeValue", "CounterValue"}
            /\ ParseFloat(stat.Value).err = "nil"
            => /\ Cardinality(SentForStat(i, j)) = 1
               /\ \A k \in SentForStat(i, j) :
                    /\ metricsCh[k].m.desc.fqName = NamePrefix \o Catalog[e].name
                    /\ metricsCh[k].m.valType = Catalog[e].metricType
                    /\ metricsCh[k].m.val = ParseFloat(stat.Value).value
                    /\ metricsCh[k].m.labelValues = <<statsSets[i].jvbIdentifier>>

\* one Collect sent a gauge with an integral value and a counter with a fraction
C7_Witness ==
  /\ pc = "collected"
  /\ \E k \in 1..Len(metricsCh) :
       /\ metricsCh[k].m.valType = "GaugeValue"
       /\ metricsCh[k].m.val = [neg |-> FALSE, mant |-> 5, frac |-> 0]
  /\ \E k \in 1..Len(metricsCh) :
       /\ metricsCh[k].m.valType = "CounterValue"
       /\ metricsCh[k].m.val = [neg |-> FALSE, mant |-> 25, frac |-> 1]

\* the histogram sent for stat j of snapshot i, its sum field left aside
HistogramSent(i, j) ==
  LET stat == statsSets[i].stats[j]
      t == bucketsHelper(stat.Value)
  IN  /\ Cardinality(SentForStat(i, j)) = 1
      /\ \A k \in SentForStat(i, j) :
           /\ metricsCh[k].m.valType = "Histogram"
           /\ metricsCh[k].m.desc.fqName = NamePrefix \o stat.Name
           /\ metricsCh[k].m.buckets = t.histogram
           /\ metricsCh[k].m.count = t.sum
           /\ metricsCh[k].m.labelValues = <<statsSets[i].jvbIdentifier>>

\* only the three names take the histogram path
OnlyHistogramNames ==
  \A k \in 1..Len(metricsCh) :
    metricsCh[k].m.valType = "Histogram" =>
      statsSets[metricsCh[k].set].stats[metricsCh[k].stat].Name \in HistogramNames

\* C8 as stated: for every fresh snapshot a stat with one of the three names
\* becomes one histogram with the transform's buckets, whose observation count
\* and sum field both equal totalObservations; no other name takes that path.
C8_Original ==
  pc = "collected" =>
    /\ OnlyHistogramNames
    /\ \A i \in 1..Len(statsSets) : \A j \in 1..Len(statsSets[i].stats) :
         Age(i) <= Retention /\ statsSets[i].stats[j].Name \in HistogramNames
         => /\ HistogramSent(i, j)
            /\ \A k \in SentForStat(i, j) :
                 metricsCh[k].m.sum = bucketsHelper(statsSets[i].stats[j].Value).sum

\* C8 amended: the same, except that the sum field is totalObservations
\* converted to float64: equal to it up to 2^53 (2^MantBits here), within
\* half a unit of the last place of it above.
C8_HistogramMetric ==
  pc = "collected" =>
    /\ OnlyHistogramNames
    /\ \A i \in 1..Len(statsSets) : \A j \in 1..Len(statsSets[i].stats) :
         Age(i) <= Retention /\ statsSets[i].stats[j].Name \in HistogramNames
         => /\ HistogramSent(i, j)
            /\ \A k \in SentForStat(i, j) :
                 LET total == bucketsHelper(statsSets[i].stats[j].Value).sum
                 IN  /\ metricsCh[k].m.sum = Float64OfUint(total)
                     /\ total <= Pow2(MantBits) => metricsCh[k].m.sum = total
                     /\ total > Pow2(MantBits) =>
                          /\ 2 * (metricsCh[k].m.sum - total) <= Pow2(BitLen(total) - MantBits)
                          /\ 2 * (total - metricsCh[k].m.sum) <= Pow2(BitLen(total) - MantBits)

\* one Collect sent a histogram with a bucket and an exact sum field and one
\* whose total is not a float64
C8_Witness ==
  /\ pc = "collected"
  /\ \E k \in 1..Len(metricsCh) :
       /\ metricsCh[k].m.valType = "Histogram"
       /\ DOMAIN metricsCh[k].m.buckets # {}
       /\ metricsCh[k].m.count > 0
       /\ metricsCh[k].m.sum = metricsCh[k].m.count
  /\ \E k \in 1..Len(metricsCh) :
       /\ metricsCh[k].m.valType = "Histogram"
       /\ metricsCh[k].m.sum # metricsCh[k].m.count

\* a histogram stat whose value has a field that does not parse
UnparsableHistogram(stat) ==
  /\ stat.Name \in HistogramNames
  /\ \E f \in 1..Len(Split(Trim(stat.Value, {"[", "]"}), ",")) :
       ParseUint(Split(Trim(stat.Value, {"[", "]"}), ",")[f]).err # "nil"

\* the stats after stat j of snapshot i that yield a metric have one
Continues(i, j) ==
  \A j2 \in (j + 1)..Len(statsSets[i].stats) :
    Translatable(statsSets[i].stats[j2]) => SentForStat(i, j2) # {}

\* C9 as stated: a histogram stat whose value has unparsable bracket contents
\* is skipped: Collect sends no metric for it, and goes on with the other stats.
C9_Original ==
  pc = "collected" =>
    \A i \in 1..Len(statsSets) : \A j \in 1..Len(statsSets[i].stats) :
      Age(i) <= Retention /\ UnparsableHistogram(statsSets[i].stats[j])
      => SentForStat(i, j) = {} /\ Continues(i, j)

\* C9 amended: such a stat is not skipped: the transform does not fail, so
\* Collect sends exactly one histogram for it, built from the transform's
\* result, and goes on with the other stats.
C9_UnparsableHistogramSent ==
  pc = "collected" =>
    \A i \in 1..Len(statsSets) : \A j \in 1..Len(statsSets[i].stats) :
      Age(i) <= Retention /\ UnparsableHistogram(statsSets[i].stats[j])
      => HistogramSent(i, j) /\ Continues(i, j)

\* a histogram stat with an unparsable field came before a good stat of the
\* same fresh snapshot, and both have their metric
C9_Witness ==
  /\ pc = "collected"
  /\ \E i \in 1..Len(statsSets) :
       /\ Len(statsSets[i].stats) = 2
       /\ UnparsableHistogram(statsSets[i].stats[1])
       /\ SentForStat(i, 1) # {}
       /\ SentForStat(i, 2) # {}

(***************************************************************************)
(* Properties of the cache under Collect, Describe and Update              *)
(***************************************************************************)
\* C11: Collect and Describe only read the cache: the step of either call
\* leaves the list of snapshots, each with its identifier, stats and
\* lastUpdated, as it was; a stale snapshot stays stored.
C11_ReadOnlyCollect ==
  [][pc = "idle" /\ pc' \in {"collected", "described"} => statsSets' = statsSets]_vars

\* a Collect has returned and a snapshot older than Retention is still stored
C11_Witness ==
  /\ pc = "collected"
  /\ \E i \in 1..Len(statsSets) : Age(i) > Retention /\ statsSets[i].stats # <<>>

\* C12: once a Collect has met an identifier stale and an Update for it has
\* followed, every Collect within Retention of the last Update sends the
\* identifier's metrics again, and they are those of the last Update's stats.
C12_ExclusionNotPermanent ==
  pc = "collected" =>
    \A i \in 1..Len(statsSets) :
      LET id == statsSets[i].jvbIdentifier
      IN  excluded[id] = "refreshed" /\ now - lastUpdate[id].time <= Retention
          => /\ \A j \in 1..Len(lastUpdate[id].stats) :
                  Translatable(lastUpdate[id].stats[j]) => SentForStat(i, j) # {}
             /\ \A k \in SentFor(i) :
                  /\ metricsCh[k].stat \in 1..Len(lastUpdate[id].stats)
                  /\ metricsCh[k].m.desc.fqName =
                       NamePrefix \o lastUpdate[id].stats[metricsCh[k].stat].Name

\* an identifier that a Collect met stale was updated and is sent again
C12_Witness ==
  /\ pc = "collected"
  /\ \E i \in 1..Len(statsSets) :
       /\ excluded[statsSets[i].jvbIdentifier] = "refreshed"
       /\ SentFor(i) # {}

\* C13: Describe sends one descriptor per catalog entry, each once, in every
\* state: the prefixed name and the label of the entry, whatever the cache holds.
C13_DescribeCatalog ==
  pc = "described" =>
    /\ Len(descCh) = Len(Catalog)
    /\ \A k \in 1..Len(descCh) :
         /\ descCh[k].fqName = NamePrefix \o Catalog[k].name
         /\ Len(descCh[k].variableLabels) = 1
    /\ \A k1, k2 \in 1..Len(descCh) : descCh[k1].fqName = descCh[k2].fqName => k1 = k2

\* Describe has returned before any Update happened
C13_Witness ==
  /\ pc = "described"
  /\ statsSets = <<>>
  /\ descCh # <<>>

\* C14 as stated: every metric a Collect sends has exactly one variable label,
\* named "instance", whose value is the identifier of its snapshot.
C14_Original ==
  pc = "collected" =>
    \A k \in 1..Len(metricsCh) :
      /\ metricsCh[k].m.desc.variableLabels = <<"instance">>
      /\ metricsCh[k].m.labelValues = <<statsSets[metricsCh[k].set].jvbIdentifier>>

\* C14 amended: the one variable label is named "jvb_instance".
C14_InstanceLabel ==
  pc = "collected" =>
    \A k \in 1..Len(metricsCh) :
      /\ metricsCh[k].m.desc.variableLabels = <<"jvb_instance">>
      /\ metricsCh[k].m.labelValues = <<statsSets[metricsCh[k].set].jvbIdentifier>>

\* one Collect sent a scalar metric of one identifier and a histogram of another
C14_Witness ==
  /\ pc = "collected"
  /\ \E k1, k2 \in 1..Len(metricsCh) :
       /\ metricsCh[k1].m.valType = "Histogram"
       /\ metricsCh[k2].m.valType # "Histogram"
       /\ metricsCh[k1].m.labelValues # metricsCh[k2].m.labelValues

\* the identifiers an Update step was called for with new arguments
Updated == {id \in Identifiers : lastUpdate'[id] # lastUpdate[id]}

\* C19: an Update changes the snapshot of its identifier only: every other
\* stored snapshot keeps its stats, its lastUpdated and its position, and an
\* Update of a stored identifier keeps the number of snapshots.
C19_UpdateFrame ==
  [][/\ Len(statsSets') >= Len(statsSets)
     /\ Len(statsSets') <= Len(statsSets) + 1
     /\ \A i \in 1..Len(statsSets) :
          /\ statsSets'[i].jvbIdentifier = statsSets[i].jvbIdentifier
          /\ statsSets[i].jvbIdentifier \notin Updated => statsSets'[i] = statsSets[i]
     /\ (\A id \in Updated : \E i \in 1..Len(statsSets) : statsSets[i].jvbIdentifier = id)
          => Len(statsSets') = Len(statsSets)
    ]_vars

\* the first of two stored snapshots was replaced after the second was stored
C19_Witness ==
  /\ pc = "idle"
  /\ Len(statsSets) = 2
  /\ statsSets[1].lastUpdated > statsSets[2].lastUpdated
  /\ statsSets[1].stats # <<>>
  /\ statsSets[2].stats # <<>>

\* C20: within one Collect no two sent metrics have the same name and the
\* same label value.
C20_NoDuplicateMetric ==
  pc = "collected" =>
    \A k1, k2 \in 1..Len(metricsCh) :
      /\ metricsCh[k1].m.desc.fqName = metricsCh[k2].m.desc.fqName
      /\ metricsCh[k1].m.labelValues = metricsCh[k2].m.labelValues
      => k1 = k2

(***************************************************************************)
(* Properties of the calls step by step                                    *)
(***************************************************************************)
UpdatesReturned == \A u \in Updaters : upd[u].pc \in {"done", "none"}

\* every call has returned and no sent item waits for the receiver
Quiet == UpdatesReturned /\ col.pc = "done" /\ inflight = <<>>

\* C15: no call blocks for ever: when the receiver of the channel takes every
\* item sent, each Update, Collect and Describe call returns, after finitely
\* many sends.
C15_CallsReturn == <>[]Quiet

\* two overlapping Updates and a Collect that sent metrics have all returned
C15_Witness ==
  /\ \A u \in Updaters : upd[u].pc = "done"
  /\ col.pc = "done"
  /\ inflight = <<>>
  /\ metricsCh # <<>>

\* C16: when an Update of a stored identifier overlaps a Collect, every metric
\* the Collect sends for the identifier is of stats whose Update happened
\* within Retention of the time of the Collect's freshness test.
C16_NoStaleStatsSent ==
  col.pc = "send" /\ col.pending # <<>> => col.t - col.origin <= Retention

\* C17: when two Updates for two identifiers that are not stored overlap,
\* both identifiers have a snapshot once both calls have returned.
C17_NoLostInsert ==
  /\ \A u \in Updaters : upd[u].pc = "done"
  /\ upd["u1"].identifier # upd["u2"].identifier
  => \A u \in Updaters : Stored(statsSets, upd[u].identifier)

\* C18: when two Updates for the same identifier that is not stored overlap,
\* the cache holds at most one snapshot for it once both calls have returned.
C18_NoDuplicateInsert ==
  /\ \A u \in Updaters : upd[u].pc = "done"
  /\ upd["u1"].identifier = upd["u2"].identifier
  => Cardinality({i \in 1..Len(statsSets) :
                    statsSets[i].jvbIdentifier = upd["u1"].identifier}) <= 1

(***************************************************************************)
(* Properties of the cumulative buckets under wrap-around                  *)
(***************************************************************************)
\* the bucket counts do not decrease with the bucket index
NonDecreasing(h) ==
  \A i, j \in DOMAIN h : i <= j => h[i] <= h[j]

\* C21: for every raw value "[c0,...,cN]" whose counts are values of the 64-bit
\* counter, the cumulative bucket counts do not decrease with the bucket index
\* and every one of them is at most totalObservations, wrap-around of the sums
\* included.
C21_MonotoneBuckets ==
  pc = "transformed" /\ WellFormed(value)
    /\ (\A i \in 1..Len(CountsOf(value)) : CountsOf(value)[i] <= MaxUint)
    => /\ NonDecreasing(transformed.histogram)
       /\ \A i \in DOMAIN transformed.histogram :
            transformed.histogram[i] <= transformed.sum
====
